---- MODULE Spec2Model ----
(***************************************************************************)
(* Model of soko_mushi.core.analyzer.DiskAnalyzer: the threaded scan       *)
(* (start_scan / stop_scan / _scan_directory_threaded / _scan_directory)   *)
(* over a fixed file system, with the caller thread and the scan threads   *)
(* interleaved at every access to a shared attribute of the analyzer.      *)
(***************************************************************************)
EXTENDS Integers, Sequences, FiniteSets, TLC

\* ------------------------------------------------------------------ bounds

\* Number of start_scan calls the caller makes (accepted or refused).  The
\* k-th call hands in the callbacks numbered k and, when accepted, creates
\* the thread numbered k.
MaxStarts == 2

Threads == 1..MaxStarts

\* Python's None for scan_thread and the three callback attributes.
None == 0

\* ------------------------------------------------------- the file system
\* A file system that does not change during the scan.  Paths are numbered;
\*   1 /r            directory  [2, 3, 4]
\*   2 /r/a.txt      file, 1024 bytes
\*   3 /r/sub        directory  [5, 6, 7]
\*   4 /r/locked     directory that cannot be opened (PermissionError)
\*   5 /r/sub/b.py   file, 2048 bytes
\*   6 /r/sub/gone   entry whose stat() fails (vanished, FileNotFoundError)
\*   7 /r/sub/flaky  directory whose listing fails while being read (OSError)
\*   8 /nowhere      a root path that does not exist
\* and the example tree the aggregations are worked out on:
\*   9 /e            directory  [10, 11]
\*  10 /e/a.txt      file, 1024 bytes
\*  11 /e/sub        directory  [12]
\*  12 /e/sub/b.py   file, 2048 bytes

Paths == 1..12

\* Outcome of path.stat() / path.is_dir(): "missing" makes stat() raise.
Kind ==
  [p \in Paths |->
     CASE p \in {1, 3, 4, 7, 9, 11} -> "dir"
       [] p \in {2, 5, 10, 12}     -> "file"
       [] OTHER                    -> "missing"]

\* stat_info.st_size, the entry's own raw size.
StSize ==
  [p \in Paths |->
     CASE p \in {2, 10} -> 1024
       [] p \in {5, 12} -> 2048
       [] p \in {1, 3, 4, 7, 9, 11} -> 4096
       [] OTHER -> 0]

\* stat_info.st_mtime (seconds since the epoch, > 0 for every real entry).
StMtime == [p \in Paths |-> IF Kind[p] = "missing" THEN 0 ELSE 1700000000 + p]

\* path.name
Name ==
  [p \in Paths |->
     CASE p = 1 -> "r"
       [] p = 2 -> "a.txt"
       [] p = 3 -> "sub"
       [] p = 4 -> "locked"
       [] p = 5 -> "b.py"
       [] p = 6 -> "gone"
       [] p = 7 -> "flaky"
       [] p = 8 -> "nowhere"
       [] p = 9 -> "e"
       [] p = 10 -> "a.txt"
       [] p = 11 -> "sub"
       [] OTHER -> "b.py"]

\* path.suffix.lower() if path.suffix else ""
Extension ==
  [p \in Paths |->
     CASE p \in {2, 10} -> ".txt"
       [] p \in {5, 12} -> ".py"
       [] OTHER -> ""]

\* The entries path.iterdir() yields, in directory order.
Listing ==
  [p \in Paths |->
     CASE p = 1 -> <<2, 3, 4>>
       [] p = 3 -> <<5, 6, 7>>
       [] p = 9 -> <<10, 11>>
       [] p = 11 -> <<12>>
       [] OTHER -> <<>>]

\* How path.iterdir() fails.  pathlib lists the whole directory (os.listdir /
\* os.scandir) before it yields the first entry, so a failure on opening the
\* directory ("open") and a failure while its entries are being read ("read")
\* both reach the except clause of line 119 before any child was scanned.
ListFail ==
  [p \in Paths |->
     CASE p = 4 -> "open"
       [] p = 7 -> "read"
       [] OTHER -> "none"]

\* The root paths the caller scans.
Roots == {1, 8}

\* The root of the example tree.
Example == 9

\* What the callbacks handed to one start_scan call do: progress_raises_at
\* is the path for which the progress callback raises (None: it never does),
\* complete_raises tells whether the completion callback raises.
Behaviours ==
  { [progress_raises_at |-> None, complete_raises |-> FALSE],
    [progress_raises_at |-> None, complete_raises |-> TRUE],
    [progress_raises_at |-> 3,    complete_raises |-> FALSE] }

\* ------------------------------------------------------------------- state

VARIABLES
  is_scanning,          \* DiskAnalyzer.is_scanning
  scan_thread,          \* DiskAnalyzer.scan_thread: None or a thread
  progress_callback,    \* DiskAnalyzer.progress_callback: None or a call number
  completion_callback,  \* DiskAnalyzer.completion_callback
  error_callback,       \* DiskAnalyzer.error_callback
  cb_kind,              \* the behaviour of the callbacks of each start_scan call
  caller,               \* the caller thread: "idle", or "joining" inside stop_scan
  join_result,          \* how the last stop_scan returned, "none" once start_scan is called
  nCalls,               \* start_scan calls made so far
  stop_called,          \* whether stop_scan was ever called
  stopped_at,           \* the phases of each thread in which a stop_scan landed
  root_path,            \* the argument of each thread (args=(root_path,))
  pc,                   \* each scan thread's position
  cur,                  \* the entry _scan_directory was last called for
  stack,                \* the directories being enumerated, outermost first
  root_info,            \* what _scan_directory(root) returned
  exc,                  \* the exception caught at line 75
  log,                  \* what each thread did, in order
  delivered,            \* arguments of each thread's completion_callback calls
  errors,               \* arguments of each thread's error_callback calls
  call                  \* a call of one of the static methods: arguments and result

vars ==
  <<is_scanning, scan_thread, progress_callback, completion_callback,
    error_callback, cb_kind, caller, join_result, call, nCalls, stop_called,
    stopped_at, root_path, pc, cur, stack, root_info, exc, log, delivered,
    errors>>

analyzer == <<is_scanning, scan_thread, progress_callback, completion_callback,
              error_callback, cb_kind>>
worker == <<pc, cur, stack, root_info, exc, log, delivered, errors>>

NoBehaviour == [progress_raises_at |-> None, complete_raises |-> FALSE]
NoEntry == [path |-> None, depth |-> 0]
\* No static method is being called.
NoInfo == [path |-> None, name |-> "", size |-> 0, is_directory |-> FALSE,
           extension |-> "", modified_time |-> 0, children |-> <<>>]

\* No static method is being called.
NoCall == [op |-> "none", root_info |-> NoInfo, count |-> 0,
           size_bytes |-> [mantissa |-> 0, exponent |-> 0], result |-> <<>>,
           raised |-> FALSE]

\* DiskAnalyzer.__init__: the analyzer, its caller and the threads it will
\* create.
Constructed ==
  /\ is_scanning = FALSE
  /\ scan_thread = None
  /\ progress_callback = None
  /\ completion_callback = None
  /\ error_callback = None
  /\ cb_kind = [k \in Threads |-> NoBehaviour]
  /\ caller = "idle"
  /\ join_result = "none"
  /\ nCalls = 0
  /\ stop_called = FALSE
  /\ stopped_at = [w \in Threads |-> {}]
  /\ root_path = [w \in Threads |-> None]
  /\ pc = [w \in Threads |-> "unborn"]
  /\ cur = [w \in Threads |-> NoEntry]
  /\ stack = [w \in Threads |-> <<>>]
  /\ root_info = [w \in Threads |-> NoInfo]
  /\ exc = [w \in Threads |-> ""]
  /\ log = [w \in Threads |-> <<>>]
  /\ delivered = [w \in Threads |-> <<>>]
  /\ errors = [w \in Threads |-> <<>>]

Init ==
  /\ Constructed
  /\ call = NoCall

\* ------------------------------------------------- _scan_directory, pieces

\* Lines 93-100: the FileInfo built for an entry whose stat() succeeded.
NewInfo(p) ==
  [path |-> p, name |-> Name[p], size |-> 0, is_directory |-> (Kind[p] = "dir"),
   extension |-> Extension[p], modified_time |-> StMtime[p], children |-> <<>>]

\* Degraded with the failed entry taken for a directory.
DegradedAsDirectory(p) ==
  [path |-> p, name |-> Name[p], size |-> 0, is_directory |-> TRUE,
   extension |-> "", modified_time |-> 0, children |-> <<>>]

\* Degraded with the FileInfo of lines 93-100 returned as it was built.
DegradedKeepsInfo(p) == NewInfo(p)

\* Lines 128-137: the minimal FileInfo returned for a failed entry.
Degraded(p) ==
  [path |-> p, name |-> Name[p], size |-> 0, is_directory |-> FALSE,
   extension |-> "", modified_time |-> 0, children |-> <<>>]

\* LeafInfo without the assignment of line 124.
LeafInfoKeepsZero(p) == NewInfo(p)

\* Line 124: a non-directory takes its own size.
LeafInfo(p) == [NewInfo(p) EXCEPT !.size = StSize[p]]

\* EnumFallback without the assignment of line 121: the size stays 0.
EnumFallbackKeepsZero(info, st_size) == info

\* Lines 119-121: the directory could not be read, it is treated as a file.
EnumFallback(info, st_size) == [info EXCEPT !.size = st_size]

\* AddChild without line 112: the child's size is not added.
AddChildNoSum(frame, child) ==
  [frame EXCEPT !.info.children = Append(@, child)]

\* Lines 111-112: the child is appended and its size added to the total.
AddChild(frame, child) ==
  [frame EXCEPT !.info.children = Append(@, child),
                !.total_size = @ + child.size]

\* FinishDir without the assignment of line 117: the size stays 0.
FinishDirKeepsZero(frame) == frame.info

\* FinishDir with the directory's own st_size added to the total.
FinishDirPlusOwnSize(frame) ==
  [frame.info EXCEPT !.size = frame.total_size + StSize[frame.info.path]]

\* Line 117: the directory's size is the total of the children collected.
FinishDir(frame) == [frame.info EXCEPT !.size = frame.total_size]

\* NewFrame for a recursive call that does not pass depth + 1 on: the
\* children are scanned with the default depth, 0.
NewFrameDepthNotPassed(p, depth) ==
  [info |-> NewInfo(p), depth |-> -1, total_size |-> 0, todo |-> Listing[p]]

\* Line 102-105: the frame of a directory whose listing succeeded.
NewFrame(p, depth) ==
  [info |-> NewInfo(p), depth |-> depth, total_size |-> 0, todo |-> Listing[p]]

\* StartRefused without the test of line 48.
StartNeverRefused(scanning) == FALSE

\* Line 48: start_scan returns at once while a scan is running.
StartRefused(scanning) == scanning

\* CompletionGuard without the test of is_scanning.
CompletionGuardIgnoresFlag(callback, scanning) == callback # None

\* Line 73: the completion callback is called only while is_scanning holds.
CompletionGuard(callback, scanning) == callback # None /\ scanning

\* Lines 90-91: whether the progress callback now installed raises for p.
ProgressRaises(callback, p) ==
  callback # None /\ cb_kind[callback].progress_raises_at = p

\* Cancelled without the test of line 106: the loop never breaks.
CancelledNever(scanning) == FALSE

\* Line 106: the loop over a directory's entries stops once is_scanning is
\* cleared.
Cancelled(scanning) == ~scanning

\* Line 77: the message handed to the error callback.
ScanError(e) == <<"Scan error: ", e>>

\* An entry of a thread's log.
Event(ev, p, depth, callback) ==
  [ev |-> ev, path |-> p, depth |-> depth, cb |-> callback]

Logged(w, e) == log' = [log EXCEPT ![w] = Append(@, e)]

\* _scan_directory returns `info` to its caller: to line 73 when it was the
\* call for the root, else to lines 111-112 of the enclosing call, whose
\* frame is the last of `frames`.
Return(w, frames, info) ==
  IF frames = <<>>
    THEN /\ root_info' = [root_info EXCEPT ![w] = info]
         /\ stack' = [stack EXCEPT ![w] = <<>>]
         /\ pc' = [pc EXCEPT ![w] = "return"]
    ELSE /\ stack' = [stack EXCEPT ![w] =
                        [frames EXCEPT ![Len(frames)] = AddChild(@, info)]]
         /\ pc' = [pc EXCEPT ![w] = "loop"]
         /\ UNCHANGED root_info

\* ---------------------------------------------------------------- caller

\* DiskAnalyzer.start_scan (lines 40-61), the k-th call of the caller.
start_scan(root_path_arg, behaviour) ==
  /\ caller = "idle"
  /\ nCalls < MaxStarts
  /\ nCalls' = nCalls + 1
  /\ join_result' = "none"
  /\ UNCHANGED <<caller, call, stop_called, stopped_at, stack, root_info, exc, log,
                 delivered, errors>>
  /\ LET k == nCalls + 1 IN
     IF StartRefused(is_scanning)
       THEN UNCHANGED <<analyzer, root_path, pc, cur>>
       ELSE /\ progress_callback' = k
            /\ completion_callback' = k
            /\ error_callback' = k
            /\ cb_kind' = [cb_kind EXCEPT ![k] = behaviour]
            /\ scan_thread' = k
            /\ is_scanning' = TRUE
            /\ root_path' = [root_path EXCEPT ![k] = root_path_arg]
            /\ pc' = [pc EXCEPT ![k] = "enter"]
            /\ cur' = [cur EXCEPT ![k] = [path |-> root_path_arg, depth |-> 0]]

\* Where a thread is: not started, before the check of line 83 for the root,
\* inside the walk, between the walk's end and the thread's end, or ended.
Phase(w) ==
  CASE pc[w] = "unborn" -> "unborn"
    [] pc[w] = "done" -> "done"
    [] pc[w] = "enter" /\ stack[w] = <<>> -> "before_root"
    [] pc[w] \in {"enter", "visit", "loop"} -> "in_walk"
    [] OTHER -> "after_walk"

\* DiskAnalyzer.stop_scan (lines 63-67): the flag is cleared, then the caller
\* joins the thread, if there is one.
stop_scan ==
  /\ caller = "idle"
  /\ is_scanning' = FALSE
  /\ stop_called' = TRUE
  /\ stopped_at' = [w \in Threads |->
                      IF Phase(w) \in {"before_root", "in_walk", "after_walk"}
                        THEN stopped_at[w] \cup {Phase(w)}
                        ELSE stopped_at[w]]
  /\ caller' = IF scan_thread # None THEN "joining" ELSE "idle"
  /\ join_result' = IF scan_thread # None THEN "none" ELSE "no_thread"
  /\ UNCHANGED <<scan_thread, progress_callback, completion_callback,
                 error_callback, cb_kind, nCalls, root_path, worker, call>>

\* Line 67: join returns because the thread has ended.
join_exited ==
  /\ caller = "joining"
  /\ pc[scan_thread] = "done"
  /\ caller' = "idle"
  /\ join_result' = "exited"
  /\ UNCHANGED <<analyzer, nCalls, stop_called, stopped_at, root_path, worker, call>>

\* Line 67: join(timeout=1.0) returns because the second has passed, the
\* thread being still alive (blocked in stat or listdir, or merely slow).
join_timeout ==
  /\ caller = "joining"
  /\ pc[scan_thread] # "done"
  /\ caller' = "idle"
  /\ join_result' = "timeout"
  /\ UNCHANGED <<analyzer, nCalls, stop_called, stopped_at, root_path, worker, call>>

\* ----------------------------------------------------------- scan thread

\* Enter with an except clause at line 113 that reports what it caught
\* through the error callback before it goes on to the next entry.
EnterReportsInterruption(w) ==
  /\ pc[w] = "enter"
  /\ IF is_scanning
       THEN /\ pc' = [pc EXCEPT ![w] = "visit"]
            /\ UNCHANGED <<exc, log, errors>>
       ELSE IF stack[w] = <<>>
         THEN /\ Logged(w, Event("interrupted", cur[w].path, cur[w].depth, None))
              /\ pc' = [pc EXCEPT ![w] = "except"]
              /\ exc' = [exc EXCEPT ![w] = "Scan was stopped"]
              /\ UNCHANGED errors
         ELSE /\ log' = [log EXCEPT ![w] =
                          Append(Append(@, Event("interrupted", cur[w].path, cur[w].depth, None)),
                                 Event("onError", cur[w].path, cur[w].depth, error_callback))]
              /\ errors' = [errors EXCEPT ![w] =
                              Append(@, [cb |-> error_callback,
                                         message |-> ScanError("Scan was stopped")])]
              /\ pc' = [pc EXCEPT ![w] = "loop"]
              /\ UNCHANGED exc
  /\ UNCHANGED <<analyzer, caller, join_result, call, nCalls, stop_called, stopped_at, root_path, cur, stack, root_info,
                 delivered>>

\* Lines 83-84: the check at the head of _scan_directory.  The
\* InterruptedError is raised outside the try of line 86: the call for the
\* root lets it reach line 75, the call for a child is caught at line 113
\* (InterruptedError is an OSError) and the loop goes on to its next entry.
Enter(w) ==
  /\ pc[w] = "enter"
  /\ IF is_scanning
       THEN /\ pc' = [pc EXCEPT ![w] = "visit"]
            /\ UNCHANGED <<exc, log>>
       ELSE /\ Logged(w, Event("interrupted", cur[w].path, cur[w].depth, None))
            /\ IF stack[w] = <<>>
                 THEN /\ pc' = [pc EXCEPT ![w] = "except"]
                      /\ exc' = [exc EXCEPT ![w] = "Scan was stopped"]
                 ELSE /\ pc' = [pc EXCEPT ![w] = "loop"]
                      /\ UNCHANGED exc
  /\ UNCHANGED <<analyzer, caller, join_result, call, nCalls, stop_called, stopped_at, root_path, cur, stack, root_info,
                 delivered, errors>>

\* Lines 86-137 for one entry, up to its return or to the start of the loop
\* over its children.
Visit(w) ==
  /\ pc[w] = "visit"
  /\ LET p == cur[w].path
         d == cur[w].depth
     IN
     IF Kind[p] = "missing"
       THEN \* line 87 raises, lines 128-137 return the minimal FileInfo
            /\ Logged(w, Event("stat_failed", p, d, None))
            /\ Return(w, stack[w], Degraded(p))
       ELSE IF ProgressRaises(progress_callback, p)
         THEN \* line 91 raises, lines 128-137
              /\ Logged(w, Event("progress", p, d, progress_callback))
              /\ Return(w, stack[w], Degraded(p))
         ELSE /\ log' = [log EXCEPT ![w] =
                    LET l == IF progress_callback # None
                               THEN Append(@, Event("progress", p, d, progress_callback))
                               ELSE @
                    IN IF Kind[p] = "dir" /\ ListFail[p] # "none"
                         THEN Append(l, Event("enum_failed", p, d, None))
                         ELSE l]
              /\ IF Kind[p] = "dir"
                   THEN IF ListFail[p] # "none"
                          THEN Return(w, stack[w], EnumFallback(NewInfo(p), StSize[p]))
                          ELSE /\ stack' = [stack EXCEPT ![w] = Append(@, NewFrame(p, d))]
                               /\ pc' = [pc EXCEPT ![w] = "loop"]
                               /\ UNCHANGED root_info
                   ELSE Return(w, stack[w], LeafInfo(p))
  /\ UNCHANGED <<analyzer, caller, join_result, call, nCalls, stop_called, stopped_at, root_path, cur, exc, delivered, errors>>

\* Lines 105-117: one turn of the loop over a directory's entries.
Loop(w) ==
  /\ pc[w] = "loop"
  /\ LET n == Len(stack[w])
         frame == stack[w][n]
         below == SubSeq(stack[w], 1, n - 1)
     IN
     IF frame.todo = <<>>
       THEN /\ Return(w, below, FinishDir(frame))
            /\ UNCHANGED <<cur, log>>
       ELSE IF Cancelled(is_scanning)
         THEN \* line 107
              /\ Logged(w, Event("break", frame.info.path, frame.depth, None))
              /\ Return(w, below, FinishDir(frame))
              /\ UNCHANGED cur
         ELSE \* line 110
              /\ cur' = [cur EXCEPT ![w] = [path |-> Head(frame.todo),
                                           depth |-> frame.depth + 1]]
              /\ stack' = [stack EXCEPT ![w][n].todo = Tail(@)]
              /\ pc' = [pc EXCEPT ![w] = "enter"]
              /\ UNCHANGED <<root_info, log>>
  /\ UNCHANGED <<analyzer, caller, join_result, call, nCalls, stop_called, stopped_at, root_path, exc, delivered, errors>>

\* Line 73: the test before the completion callback.
AfterWalk(w) ==
  /\ pc[w] = "return"
  /\ Logged(w, Event(IF is_scanning THEN "returned_scanning" ELSE "returned_stopped",
                     root_info[w].path, 0, None))
  /\ IF CompletionGuard(completion_callback, is_scanning)
       THEN pc' = [pc EXCEPT ![w] = "complete"]
       ELSE pc' = [pc EXCEPT ![w] = "finally"]
  /\ UNCHANGED <<analyzer, caller, join_result, call, nCalls, stop_called, stopped_at, root_path, cur, stack, root_info,
                 exc, delivered, errors>>

\* Line 74: the completion callback now installed is called with the tree;
\* if it raises, line 75 catches what it raised.
Complete(w) ==
  /\ pc[w] = "complete"
  /\ completion_callback # None
  /\ delivered' = [delivered EXCEPT ![w] =
                     Append(@, [cb |-> completion_callback, tree |-> root_info[w]])]
  /\ Logged(w, Event("onComplete", root_info[w].path, 0, completion_callback))
  /\ IF cb_kind[completion_callback].complete_raises
       THEN /\ pc' = [pc EXCEPT ![w] = "except"]
            /\ exc' = [exc EXCEPT ![w] = "completion callback raised"]
       ELSE /\ pc' = [pc EXCEPT ![w] = "finally"]
            /\ UNCHANGED exc
  /\ UNCHANGED <<analyzer, caller, join_result, call, nCalls, stop_called, stopped_at, root_path, cur, stack, root_info, errors>>

\* Lines 75-77: the error callback now installed is called with the message.
Except(w) ==
  /\ pc[w] = "except"
  /\ IF error_callback # None
       THEN /\ errors' = [errors EXCEPT ![w] =
                            Append(@, [cb |-> error_callback, message |-> ScanError(exc[w])])]
            /\ Logged(w, Event("onError", cur[w].path, 0, error_callback))
       ELSE UNCHANGED <<errors, log>>
  /\ pc' = [pc EXCEPT ![w] = "finally"]
  /\ UNCHANGED <<analyzer, caller, join_result, call, nCalls, stop_called, stopped_at, root_path, cur, stack, root_info,
                 exc, delivered>>

\* Lines 78-79: the thread clears the flag and ends.
Finally(w) ==
  /\ pc[w] = "finally"
  /\ is_scanning' = FALSE
  /\ pc' = [pc EXCEPT ![w] = "done"]
  /\ UNCHANGED <<scan_thread, progress_callback, completion_callback,
                 error_callback, cb_kind, caller, join_result, call, nCalls, stop_called,
                 stopped_at, root_path, cur, stack, root_info, exc, log,
                 delivered, errors>>

Next ==
  \/ \E r \in Roots, behaviour \in Behaviours : start_scan(r, behaviour)
  \/ stop_scan
  \/ join_exited
  \/ join_timeout
  \/ \E w \in Threads : Enter(w)
  \/ \E w \in Threads : Visit(w)
  \/ \E w \in Threads : Loop(w)
  \/ \E w \in Threads : AfterWalk(w)
  \/ \E w \in Threads : Complete(w)
  \/ \E w \in Threads : Except(w)
  \/ \E w \in Threads : Finally(w)

Spec == Init /\ [][Next]_vars

\* ------------------------------------------------------- reading the state

WalkPcs == {"enter", "visit", "loop"}

RECURSIVE SumSizes(_)
\* The sum of the sizes of a sequence of FileInfo.
SumSizes(infos) ==
  IF infos = <<>> THEN 0 ELSE Head(infos).size + SumSizes(Tail(infos))

RECURSIVE NodesOf(_)
\* Every FileInfo of a tree, the root included.
NodesOf(info) ==
  {info} \cup UNION {NodesOf(info.children[i]) : i \in DOMAIN info.children}

\* The FileInfo a thread's calls of _scan_directory have returned so far: the
\* root's, once it is back at line 73, and those already appended to the
\* directories still being enumerated.
Returned(w) ==
  (IF root_info[w].path # None THEN {root_info[w]} ELSE {})
  \cup UNION {{stack[w][i].info.children[j] : j \in DOMAIN stack[w][i].info.children}
              : i \in DOMAIN stack[w]}

BuiltNodes(w) == UNION {NodesOf(t) : t \in Returned(w)}

\* The directories of a thread, finished or still being enumerated, as
\* <<path, children>> pairs.
Parents(w) ==
  {<<n.path, n.children>> : n \in BuiltNodes(w)}
  \cup {<<stack[w][i].info.path, stack[w][i].info.children>> : i \in DOMAIN stack[w]}

LogHas(w, ev) == \E i \in DOMAIN log[w] : log[w][i].ev = ev

LogPaths(w, ev) == {log[w][i].path : i \in {j \in DOMAIN log[w] : log[w][j].ev = ev}}

\* The thread saw is_scanning false at some point of its run.
SawStop(w) ==
  LogHas(w, "interrupted") \/ LogHas(w, "break") \/ LogHas(w, "returned_stopped")

\* The directory that lists p.
ParentOf(p) == CHOOSE d \in Paths : \E i \in DOMAIN Listing[d] : Listing[d][i] = p

Interrupted == ScanError("Scan was stopped")

\* The thread's progress callback raised for some entry (line 91).
ProgressRaised(w) ==
  \E i \in DOMAIN log[w] :
     /\ log[w][i].ev = "progress"
     /\ cb_kind[log[w][i].cb].progress_raises_at = log[w][i].path

\* The progress_callback calls of a thread (line 91), in order.
IsProgress(e) == e.ev = "progress"
Progress(w) == SelectSeq(log[w], IsProgress)

\* The entries _scan_directory has built a FileInfo for: those returned and
\* the directories still being enumerated.
Visited(w) ==
  {n.path : n \in BuiltNodes(w)} \cup {stack[w][i].info.path : i \in DOMAIN stack[w]}

RECURSIVE PreOrder(_), PreOrders(_)
\* The entries below and including p in the order lines 105-110 reach them:
\* an entry, then each of its listed entries with what is below it.
PreOrder(p) == <<p>> \o PreOrders(Listing[p])

PreOrders(ps) ==
  IF ps = <<>> THEN <<>> ELSE PreOrder(Head(ps)) \o PreOrders(Tail(ps))

\* The place of every entry in the pre-order of the root it is below.
Place ==
  [p \in Paths |->
     LET root == CHOOSE r \in Roots \cup {Example} : \E i \in DOMAIN PreOrder(r) : PreOrder(r)[i] = p
     IN CHOOSE i \in DOMAIN PreOrder(root) : PreOrder(root)[i] = p]

\* The directory that lists each entry below a root.
Parent == [p \in Paths \ (Roots \cup {Example}) |-> ParentOf(p)]

RECURSIVE FullSize(_), FullSizes(_)
\* The size _scan_directory gives an entry when is_scanning stays set and no
\* callback raises: 0 when stat fails (line 132), st_size for a file (line
\* 124) and for a directory that cannot be listed (line 121), else the sum
\* over the listing (lines 110-117).
FullSize(p) ==
  CASE Kind[p] = "missing" -> 0
    [] Kind[p] = "file" -> StSize[p]
    [] Kind[p] = "dir" /\ ListFail[p] # "none" -> StSize[p]
    [] OTHER -> FullSizes(Listing[p])

\* Lines 110-112 over a listing.
FullSizes(ps) ==
  IF ps = <<>> THEN 0 ELSE FullSize(Head(ps)) + FullSizes(Tail(ps))

RECURSIVE FullScan(_), ScanAll(_, _)
\* The FileInfo _scan_directory(p) returns when is_scanning stays set and no
\* callback raises (lines 86-137 run by one thread, start to end).
FullScan(p) ==
  CASE Kind[p] = "missing" -> Degraded(p)
    [] Kind[p] = "file" -> LeafInfo(p)
    [] Kind[p] = "dir" /\ ListFail[p] # "none" -> EnumFallback(NewInfo(p), StSize[p])
    [] OTHER -> FinishDir(ScanAll(NewFrame(p, 0), Listing[p]))

\* Lines 105-112: the loop over the listing, each child scanned in turn.
ScanAll(frame, todo) ==
  IF todo = <<>>
    THEN frame
    ELSE ScanAll(AddChild(frame, FullScan(Head(todo))), Tail(todo))

\* ------------------------------------------------------------------ claims

\* C1: a scan thread never invokes both onComplete and onError, and never
\* invokes either of them more than once, whatever the callbacks do.
C1_AtMostOneTerminalCallback ==
  \A w \in Threads : Len(delivered[w]) + Len(errors[w]) <= 1

\* C2: if stop_scan is never called, a scan thread that has ended has invoked
\* exactly one of onComplete and onError, and is_scanning is false again
\* unless a later scan was accepted.
C2_ExactlyOneCallbackWithoutStop ==
  ~stop_called =>
    \A w \in Threads :
      pc[w] = "done" =>
        /\ Len(delivered[w]) + Len(errors[w]) = 1
        /\ (scan_thread = w => ~is_scanning)

\* C3: at most one scan thread is walking at any time (inside the walk: past
\* the check of line 83 for its root, and not yet back at line 73).
C3_AtMostOneWalker ==
  Cardinality({w \in Threads : Phase(w) = "in_walk"}) <= 1

\* C4: a start_scan call made while is_scanning is true changes neither the
\* flag, nor the thread reference, nor the stored callbacks, and starts no
\* thread: every scan thread is where it was and reports to the same callbacks.
C4_BusyStartIsNoOp ==
  [][(nCalls' = nCalls + 1 /\ is_scanning) =>
       UNCHANGED <<is_scanning, scan_thread, progress_callback,
                   completion_callback, error_callback, cb_kind, root_path,
                   pc, cur, stack, root_info, exc, log, delivered, errors>>]_vars

\* C4 witness: the second start_scan call was refused (it created no thread)
\* while the first scan is still walking and reporting to its own callbacks.
C4_Witness ==
  /\ nCalls = 2
  /\ pc[2] = "unborn"
  /\ pc[1] \in WalkPcs
  /\ is_scanning
  /\ progress_callback = 1 /\ completion_callback = 1 /\ error_callback = 1
  /\ LogHas(1, "progress")

C6_CancellationIsNotAnError ==
  \A w \in Threads :
    stopped_at[w] # {} =>
      \A i \in DOMAIN errors[w] : errors[w][i].message # Interrupted

\* C7: a scan whose root cannot be stat'd never invokes onComplete, and by its
\* end has invoked onError exactly once.
C7_MissingRootReportsError ==
  \A w \in Threads :
    (root_path[w] # None /\ Kind[root_path[w]] = "missing") =>
      /\ delivered[w] = <<>>
      /\ (pc[w] = "done" /\ ~SawStop(w) => Len(errors[w]) = 1)

\* C8: every directory FileInfo the walk has returned, whose enumeration did
\* not fail, has the sum of its recorded children's sizes as its size.
C8_DirSizeIsSumOfChildren ==
  \A w \in Threads :
    \A n \in BuiltNodes(w) :
      (n.is_directory /\ n.path \notin LogPaths(w, "enum_failed"))
        => n.size = SumSizes(n.children)

\* C8 witness: a walk cut short by cancellation has ended; its root kept some
\* but not all of its entries, one of them a directory with children of its
\* own, and its size is not zero.
C8_Witness ==
  \E w \in Threads :
    /\ pc[w] = "done"
    /\ LogHas(w, "break")
    /\ root_info[w].path = 1
    /\ Len(root_info[w].children) = 2
    /\ Len(root_info[w].children[2].children) >= 1
    /\ root_info[w].size > 0

\* C9: a directory whose enumeration failed, on opening or while its entries
\* were read, is returned as a directory FileInfo with no children and the
\* directory's own st_size, and the failure is not reported: the only error
\* such a scan can report is what its completion callback raised.
C9_FailedEnumerationFallsBack ==
  \A w \in Threads :
    /\ \A p \in LogPaths(w, "enum_failed") :
         /\ \E n \in BuiltNodes(w) : n.path = p
         /\ \A n \in BuiltNodes(w) :
              n.path = p => /\ n.is_directory
                            /\ n.children = <<>>
                            /\ n.size = StSize[p]
    /\ (LogHas(w, "enum_failed") /\ errors[w] # <<>>)
         => exc[w] = "completion callback raised"
    /\ (LogHas(w, "enum_failed") /\ pc[w] = "done" /\ ~SawStop(w))
         => Len(delivered[w]) = 1

\* C9 witness: a scan that met both kinds of failure (path 4 on opening,
\* path 7 while reading) has ended without being cancelled.
C9_Witness ==
  \E w \in Threads :
    /\ pc[w] = "done"
    /\ ~SawStop(w)
    /\ LogPaths(w, "enum_failed") = {4, 7}
    /\ errors[w] = <<>>

C11_PartialSizeBounded ==
  \A w \in Threads :
     /\ \A i \in DOMAIN delivered[w] :
          LET t == delivered[w][i].tree IN
          /\ 0 <= t.size
          /\ t.size <= FullSize(t.path)
     /\ (root_info[w].path # None /\ ~SawStop(w) /\ ~ProgressRaised(w))
          => /\ root_info[w].size = FullSize(root_info[w].path)
             /\ root_info[w] = FullScan(root_info[w].path)

\* A stop_scan landed inside the walk of a thread that nevertheless handed
\* over its tree, cut short of the full size.
C11_Witness ==
  \E w \in Threads :
     /\ "in_walk" \in stopped_at[w]
     /\ LogHas(w, "break")
     /\ \E i \in DOMAIN delivered[w] :
          LET t == delivered[w][i].tree IN
          /\ t.is_directory
          /\ 0 < t.size
          /\ t.size < FullSize(t.path)

\* C12 as claimed: every entry the walk has built a FileInfo for has had
\* exactly one progress_callback call.
C12_ProgressForEveryEntry ==
  \A w \in Threads :
     \A p \in Visited(w) :
        Cardinality({i \in DOMAIN Progress(w) : Progress(w)[i].path = p}) = 1

\* C12 as amended: the progress_callback calls of a thread are, each exactly
\* once, the entries it has built a FileInfo for and whose stat() succeeded;
\* they come in pre-order (each call is for an entry further on in the
\* pre-order of the tree than the call before it, hence no entry twice), the
\* root first with depth 0 and every other entry after its parent with the
\* parent's depth plus one.
C12_ProgressInPreOrder ==
  \A w \in Threads :
     LET P == Progress(w) IN
     /\ {P[i].path : i \in DOMAIN P} = Visited(w) \ LogPaths(w, "stat_failed")
     /\ P # <<>> => (P[1].path = root_path[w] /\ P[1].depth = 0)
     /\ \A i \in DOMAIN P :
          i > 1 => /\ Place[P[i - 1].path] < Place[P[i].path]
                   /\ \E j \in 1..(i - 1) :
                         /\ P[j].path = Parent[P[i].path]
                         /\ P[i].depth = P[j].depth + 1

\* C12 witness: a scan of /r that was not cancelled has ended: it reported
\* six entries, down to depth 2, and none for the vanished entry 6, which is
\* in its tree.
C12_Witness ==
  \E w \in Threads :
     /\ pc[w] = "done"
     /\ ~SawStop(w)
     /\ Len(Progress(w)) = 6
     /\ \E i \in DOMAIN Progress(w) : Progress(w)[i].depth = 2
     /\ 6 \in Visited(w)
     /\ 6 \notin {Progress(w)[i].path : i \in DOMAIN Progress(w)}

\* C13: once a thread has invoked its completion or error callback it
\* invokes no progress callback: in every thread's run each progress call
\* comes before the terminal call.
C13_TerminalAfterProgress ==
  \A w \in Threads :
     \A i, j \in DOMAIN log[w] :
        (i < j /\ log[w][i].ev \in {"onComplete", "onError"})
          => log[w][j].ev # "progress"

\* C13 witness: a thread has ended after progress calls followed by both
\* terminal calls (its completion callback raised).
C13_Witness ==
  \E w \in Threads :
     /\ pc[w] = "done"
     /\ Len(Progress(w)) >= 2
     /\ LogHas(w, "onComplete")
     /\ LogHas(w, "onError")

\* A call of the progress, completion or error callback (lines 91, 74, 77).
IsCallback(e) == e.ev \in {"progress", "onComplete", "onError"}

\* C14: stop_scan never waits for ever (the thread it joins exists, so the
\* join ends by the thread's end or by the timeout), and once it has
\* returned because the thread had ended, no thread invokes a progress,
\* completion or error callback until start_scan is called again.
C14_QuietAfterJoin ==
  [][/\ caller = "joining" => scan_thread # None
     /\ (join_result = "exited" /\ join_result' = "exited")
          => \A w \in Threads :
                SelectSeq(log'[w], IsCallback) = SelectSeq(log[w], IsCallback)]_vars

\* ------------------------------------------------- the static aggregations
\* get_file_type_stats and get_largest_items are static methods over a tree
\* of FileInfo: they are applied to every tree of a bounded set.

\* Entries of the root of a generated tree, of a directory below the root,
\* and the largest count handed to get_largest_items (the smallest is its
\* opposite: Python accepts a negative slice bound).
MaxEntries == 3
MaxSubEntries == 1
MaxCount == 3

SeqsUpTo(S, n) == UNION {[1..k -> S] : k \in 0..n}

\* The kinds of file a generated tree holds (FileInfo, lines 14-27): two of
\* the same size and different extensions, and a larger one without
\* extension.
EntryKinds ==
  { [is_directory |-> FALSE, extension |-> ".txt", size |-> 1024],
    [is_directory |-> FALSE, extension |-> ".py",  size |-> 1024],
    [is_directory |-> FALSE, extension |-> "",     size |-> 2048] }

NoKind == [is_directory |-> TRUE, extension |-> "", size |-> 0]

\* What a generated root holds at one place: an entry without children, or
\* a directory with up to MaxSubEntries such entries.
Shapes ==
  {[sub |-> FALSE, kind |-> k, kinds |-> <<>>] : k \in EntryKinds}
  \cup {[sub |-> TRUE, kind |-> NoKind, kinds |-> ks] :
          ks \in SeqsUpTo(EntryKinds, MaxSubEntries)}

Entry(kind, path) ==
  [path |-> path, name |-> "entry", size |-> kind.size,
   is_directory |-> kind.is_directory, extension |-> kind.extension,
   modified_time |-> 1700000000, children |-> <<>>]

\* A directory as lines 102-117 leave it: its size is its children's sum.
Directory(path, children) ==
  [path |-> path, name |-> "dir", size |-> SumSizes(children),
   is_directory |-> TRUE, extension |-> "", modified_time |-> 1700000000,
   children |-> children]

Child(shape, path) ==
  IF shape.sub
    THEN Directory(path, [i \in DOMAIN shape.kinds |-> Entry(shape.kinds[i], path + i)])
    ELSE Entry(shape.kind, path)

GeneratedTree(shapes) ==
  Directory(100, [i \in DOMAIN shapes |-> Child(shapes[i], 100 + 10 * i)])

\* The trees the static methods are applied to: the generated directories,
\* the single entries, and what _scan_directory returns for /r and for the
\* example /e.
Trees ==
  {GeneratedTree(shapes) : shapes \in SeqsUpTo(Shapes, MaxEntries)}
  \cup {Entry(k, 100) : k \in EntryKinds}
  \cup {FullScan(1), FullScan(Example)}

Counts == (0 - MaxCount)..MaxCount

\* CountedAlways: Counted without the test of line 181.
CountedAlways(info) == TRUE

\* Line 181: only non-directories are counted.
Counted(info) == ~info.is_directory

\* Line 182: info.extension or "No extension".
ExtKey(info) == IF info.extension = "" THEN "No extension" ELSE info.extension

\* Lines 183-186: the bucket of ext, created at its first use (a dict keeps
\* its keys in insertion order), takes one more file and its size.
Bump(stats, ext, size) ==
  IF \E i \in DOMAIN stats : stats[i].ext = ext
    THEN [i \in DOMAIN stats |->
            IF stats[i].ext = ext
              THEN [stats[i] EXCEPT !.count = @ + 1, !.size = @ + size]
              ELSE stats[i]]
    ELSE Append(stats, [ext |-> ext, count |-> 1, size |-> size])

RECURSIVE collect_stats(_, _), collect_stats_children(_, _)
\* Lines 180-189: collect_stats, the dict `stats` threaded through.
collect_stats(stats, info) ==
  collect_stats_children(
    IF Counted(info) THEN Bump(stats, ExtKey(info), info.size) ELSE stats,
    info.children)

\* Lines 188-189.  The dict as a child leaves it is computed before the next
\* child is met.
collect_stats_children(stats, children) ==
  IF children = <<>>
    THEN stats
    ELSE LET after == collect_stats(stats, Head(children)) IN
         IF Len(after) >= 0
           THEN collect_stats_children(after, Tail(children))
           ELSE after

\* x put into sorted after its first k elements.
InsertAt(sorted, k, x) ==
  SubSeq(sorted, 1, k) \o <<x>> \o SubSeq(sorted, k + 1, Len(sorted))

\* InsertBySize for a sort that is not stable: x goes before its equals.
InsertBySizeBeforeEqual(sorted, x) ==
  InsertAt(sorted, Cardinality({i \in DOMAIN sorted : sorted[i].size > x.size}), x)

\* InsertBySize for a sort without reverse=True: the smallest comes first.
InsertBySizeAscending(sorted, x) ==
  InsertAt(sorted, Cardinality({i \in DOMAIN sorted : sorted[i].size <= x.size}), x)

\* sorted(..., key=size, reverse=True) keeps equal keys in their original
\* order: x is put after every element at least as large (sorted is in
\* descending order, so these are its first elements).
InsertBySize(sorted, x) ==
  InsertAt(sorted, Cardinality({i \in DOMAIN sorted : sorted[i].size >= x.size}), x)

RECURSIVE SortFrom(_, _, _, _)
\* The elements items[lo..hi] are placed one after the other, in their
\* order, into the list the earlier ones have made.
SortFrom(sorted, items, lo, hi) ==
  IF lo > hi THEN sorted
  ELSE IF lo = hi THEN InsertBySize(sorted, items[lo])
  ELSE LET mid == (lo + hi) \div 2
           placed == SortFrom(sorted, items, lo, mid)
       IN IF Len(placed) > 0 THEN SortFrom(placed, items, mid + 1, hi) ELSE placed

\* Lines 194-196 and 213: sorted(..., key=lambda x: size, reverse=True).
SortedBySize(items) == SortFrom(<<>>, items, 1, Len(items))

\* Lines 176-198.
get_file_type_stats(root) == SortedBySize(collect_stats(<<>>, root))

RECURSIVE collect_items(_), collect_items_children(_)
\* Lines 205-208: the node, then each child's nodes.
collect_items(info) == <<info>> \o collect_items_children(info.children)

collect_items_children(children) ==
  IF children = <<>>
    THEN <<>>
    ELSE collect_items(Head(children)) \o collect_items_children(Tail(children))

\* SliceAll: Slice without the [:count] of line 213.
SliceAll(items, count) == items

\* Line 213: items[:count], Python's slice: a count beyond the length stops
\* at the end, a negative count is taken from the end.
Slice(items, count) ==
  LET n == Len(items)
      stop == IF count >= 0
                THEN (IF count < n THEN count ELSE n)
                ELSE (IF n + count > 0 THEN n + count ELSE 0)
  IN SubSeq(items, 1, stop)

\* Lines 201-213.
get_largest_items(root, count) ==
  Slice(SortedBySize(collect_items(root)), count)

\* Every variable of the threaded scan.
scanning ==
  <<analyzer, caller, join_result, nCalls, stop_called, stopped_at, root_path,
    worker>>

\* TreeLeft for a call that sorts the children of the root where they are
\* (list.sort in place of sorted).
TreeLeftSorted(root) == [root EXCEPT !.children = SortedBySize(@)]

\* The tree a static method leaves behind.  No statement of lines 175-213, or
\* of the exporter's lines 17-120, assigns to a FileInfo or changes a
\* children list (sorted() and the slice of line 213 build new lists): the
\* tree is left as it was given, also when open() raises.
TreeLeft(root) == root

\* An analyzer, and the tree a static aggregation is about to be called on.
InitAggregator ==
  /\ Constructed
  /\ call \in {[NoCall EXCEPT !.root_info = t] : t \in Trees}

GetFileTypeStats ==
  /\ call.op = "none"
  /\ call' = [call EXCEPT !.op = "get_file_type_stats",
                          !.root_info = TreeLeft(@),
                          !.result = get_file_type_stats(call.root_info)]
  /\ UNCHANGED scanning

GetLargestItems(count) ==
  /\ call.op = "none"
  /\ call' = [call EXCEPT !.op = "get_largest_items",
                          !.root_info = TreeLeft(@),
                          !.count = count,
                          !.result = get_largest_items(call.root_info, count)]
  /\ UNCHANGED scanning

NextAggregator ==
  \/ GetFileTypeStats
  \/ \E count \in Counts : GetLargestItems(count)

SpecAggregator == InitAggregator /\ [][NextAggregator]_vars

\* Readings of a tree and of a result, for the properties below.
IsFile(n) == ~n.is_directory

RECURSIVE SetSum(_)
\* The sum of the sizes of a set of FileInfo.
SetSum(S) ==
  IF S = {} THEN 0
  ELSE LET x == CHOOSE y \in S : TRUE IN x.size + SetSum(S \ {x})

RECURSIVE SumCounts(_)
SumCounts(stats) ==
  IF stats = <<>> THEN 0 ELSE Head(stats).count + SumCounts(Tail(stats))

\* The place of a node in the pre-order of its tree.
PlaceOf(t, path) ==
  CHOOSE i \in DOMAIN collect_items(t) : collect_items(t)[i].path = path

\* The place in pre-order of the first file counted in the bucket of ext.
FirstMet(t, ext) ==
  LET items == collect_items(t) IN
  CHOOSE i \in DOMAIN items :
     /\ IsFile(items[i]) /\ ExtKey(items[i]) = ext
     /\ \A j \in 1..(i - 1) : ~(IsFile(items[j]) /\ ExtKey(items[j]) = ext)

\* C15: the buckets of get_file_type_stats partition the non-directory nodes
\* of the tree by extension: their sizes add up to the total size of those
\* nodes and their counts to the number of those nodes, every bucket holds
\* exactly the files of its extension, directories are in no bucket, and a
\* file with an empty extension is counted under "No extension" only.
C15_StatsPartitionFiles ==
  call.op = "get_file_type_stats" =>
    LET t == call.root_info
        stats == call.result
        files == {n \in NodesOf(t) : ~n.is_directory}
        KeyOf(n) == IF n.extension = "" THEN "No extension" ELSE n.extension
    IN
    /\ SumSizes(stats) = SetSum(files)
    /\ SumCounts(stats) = Cardinality(files)
    /\ \A i, j \in DOMAIN stats : stats[i].ext = stats[j].ext => i = j
    /\ \A i \in DOMAIN stats :
         LET bucket == {n \in files : KeyOf(n) = stats[i].ext} IN
         /\ stats[i].ext # ""
         /\ bucket # {}
         /\ stats[i].count = Cardinality(bucket)
         /\ stats[i].size = SetSum(bucket)
    /\ \A n \in files : \E i \in DOMAIN stats : stats[i].ext = KeyOf(n)

\* C15 witness: the statistics of a tree that holds a directory of non-zero
\* size, a file without extension and files of two extensions.
C15_Witness ==
  /\ call.op = "get_file_type_stats"
  /\ \E n \in NodesOf(call.root_info) : n.is_directory /\ n.size > 0 /\ n.children = <<>>
  /\ \E n \in NodesOf(call.root_info) : ~n.is_directory /\ n.extension = ""
  /\ Len(call.result) = 3
  /\ \E i \in DOMAIN call.result : call.result[i].ext = "No extension"

\* C16: the buckets of get_file_type_stats come by descending total size, and
\* buckets of equal size in the order their extensions are first met in a
\* pre-order walk of the tree.
C16_StatsBySizeThenFirstMet ==
  call.op = "get_file_type_stats" =>
    LET stats == call.result IN
    \A i, j \in DOMAIN stats :
       i < j =>
         /\ stats[i].size >= stats[j].size
         /\ stats[i].size = stats[j].size
              => FirstMet(call.root_info, stats[i].ext)
                   < FirstMet(call.root_info, stats[j].ext)

\* C16 witness: statistics with two buckets of the same size after a larger
\* one that was met later.
C16_Witness ==
  /\ call.op = "get_file_type_stats"
  /\ Len(call.result) = 3
  /\ call.result[1].size > call.result[2].size
  /\ call.result[2].size = call.result[3].size
  /\ FirstMet(call.root_info, call.result[1].ext)
       > FirstMet(call.root_info, call.result[2].ext)

\* C17 as claimed: for every count, negative ones included, the result of
\* get_largest_items has min(count, number of nodes) elements.
C17_LengthIsMinForEveryCount ==
  call.op = "get_largest_items" =>
    LET total == Len(collect_items(call.root_info)) IN
    Len(call.result) = IF call.count < total THEN call.count ELSE total

\* C17 as amended: for every count >= 0 the result of get_largest_items has
\* min(count, number of nodes) elements, of non-increasing size, each a node
\* of the tree (the root is one of them) and none twice; for a count < 0
\* the slice leaves the -count last elements out instead.
C17_LargestItems ==
  call.op = "get_largest_items" =>
    LET t == call.root_info
        items == call.result
        total == Cardinality(NodesOf(t))
    IN
    /\ call.count >= 0 => Len(items) = IF call.count < total THEN call.count ELSE total
    /\ call.count < 0 => Len(items) = IF total + call.count > 0 THEN total + call.count ELSE 0
    /\ \A i, j \in DOMAIN items : i < j => items[i].size >= items[j].size
    /\ \A i \in DOMAIN items : items[i] \in NodesOf(t)
    /\ \A i, j \in DOMAIN items : items[i].path = items[j].path => i = j
    /\ call.count >= total => \E i \in DOMAIN items : items[i] = t

\* C17 witness: a cut inside the list (fewer items than nodes, more than
\* one) whose first item is the root, a directory.
C17_Witness ==
  /\ call.op = "get_largest_items"
  /\ call.count = 3
  /\ Len(call.result) = 3
  /\ Cardinality(NodesOf(call.root_info)) > 3
  /\ call.result[1] = call.root_info

\* C18: in the result of get_largest_items nodes of equal size come in
\* pre-order, and when the cut falls between nodes of equal size the ones
\* kept are the earlier ones in pre-order.
C18_TiesInPreOrder ==
  call.op = "get_largest_items" =>
    LET t == call.root_info
        items == call.result
        kept == {items[i].path : i \in DOMAIN items}
    IN
    /\ \A i, j \in DOMAIN items :
         (i < j /\ items[i].size = items[j].size)
           => PlaceOf(t, items[i].path) < PlaceOf(t, items[j].path)
    /\ \A n \in NodesOf(t) :
         n.path \notin kept =>
           \A i \in DOMAIN items :
              items[i].size = n.size
                => PlaceOf(t, items[i].path) < PlaceOf(t, n.path)

\* C18 witness: the cut fell between two nodes of the same size, a directory
\* and the only file it holds: the directory, first in pre-order, is kept.
C18_Witness ==
  /\ call.op = "get_largest_items"
  /\ call.count > 0
  /\ Len(call.result) = call.count
  /\ LET last == call.result[Len(call.result)] IN
     /\ last.is_directory
     /\ Len(last.children) = 1
     /\ last.children[1].size = last.size
     /\ last.children[1].path \notin {call.result[i].path : i \in DOMAIN call.result}

\* C19 as claimed: for the tree of the example (a.txt of 1024 bytes and sub
\* holding b.py of 2048 bytes), get_largest_items(root, 1) is the single
\* node sub.
C19_LargestOfExampleIsSub ==
  (/\ call.op = "get_largest_items"
   /\ call.root_info = FullScan(Example)
   /\ call.count = 1)
    => (Len(call.result) = 1 /\ call.result[1].name = "sub")

\* C19 as amended: for the tree of the example, whose root has size 3072,
\* get_largest_items(root, 1) is the single node root, and
\* get_largest_items(root, 2) is the root followed by sub (2048).
C19_LargestOfExampleIsRoot ==
  (call.op = "get_largest_items" /\ call.root_info = FullScan(Example)) =>
    /\ call.root_info.size = 3072
    /\ call.count = 1 => call.result = <<call.root_info>>
    /\ call.count = 2 =>
         /\ Len(call.result) = 2
         /\ call.result[1] = call.root_info
         /\ call.result[2].name = "sub"
         /\ call.result[2].size = 2048

\* C19 witness: get_largest_items(root, 1) was called on the example tree.
C19_Witness ==
  /\ call.op = "get_largest_items"
  /\ call.root_info = FullScan(Example)
  /\ call.root_info.path = Example
  /\ Len(call.root_info.children) = 2
  /\ call.count = 1
  /\ Len(call.result) = 1

\* ------------------------------------------------------------ format_size
\* format_size works on float(size_bytes).  A byte count is written here as
\* mantissa * 1024^exponent with a mantissa below 2^20: such a count has at
\* most 20 significant bits, so float() and the divisions by 1024 (a power
\* of two) are exact and the arithmetic below is the arithmetic of the code.

\* Largest mantissa and exponent of the byte counts formatted.
MaxMantissa == 1500
MaxExponent == 6

\* The divisor of line 167.
Base == 1024

\* Line 162.
units == <<"B", "KB", "MB", "GB", "TB", "PB">>

RECURSIVE Pow(_, _)
Pow(b, n) == IF n = 0 THEN 1 ELSE b * Pow(b, n - 1)

\* Mantissas at the edges of a unit: 1.75 and 2 KB, and the counts whose
\* value in the next unit rounds to 1023.5, 1023.9 and 1024.0.
EdgeMantissas == {1792, 2047, 2048, 1048064, 1048524, 1048525, 1048575}

ByteCounts ==
  {[mantissa |-> m, exponent |-> e] : m \in 0..MaxMantissa, e \in 0..MaxExponent}
  \cup {[mantissa |-> m, exponent |-> e] : m \in EdgeMantissas, e \in 0..5}

\* GreaterThanBase: AtLeastBase with > for >=.
GreaterThanBase(m, s) == s >= 1 \/ (s = 0 /\ m > Base)

\* Line 166, size >= 1024 for size = m * 1024^s, 0 < m < 2^20.
AtLeastBase(m, s) == s >= 1 \/ (s = 0 /\ m >= Base)

RECURSIVE Scale(_, _, _)
\* Lines 166-168: the loop, for size = m * 1024^s.
Scale(m, s, unit_index) ==
  IF AtLeastBase(m, s) /\ unit_index < Len(units) - 1
    THEN Scale(m, s - 1, unit_index + 1)
    ELSE [mantissa |-> m, exponent |-> s, unit_index |-> unit_index]

\* f"{size:.1f}" for size = m * 1024^s: the number of tenths nearest to the
\* exact value, the even one of two equally near (the conversion of a float
\* to decimal is correctly rounded).
Tenths(m, s) ==
  IF s >= 0
    THEN [whole |-> m * Pow(Base, s), tenth |-> 0]
    ELSE LET d == Pow(Base, 0 - s)
             q == (10 * m) \div d
             r == (10 * m) % d
             t == IF 2 * r > d \/ (2 * r = d /\ q % 2 = 1) THEN q + 1 ELSE q
         IN [whole |-> t \div 10, tenth |-> t % 10]

\* Lines 157-173.  The string is given by its parts: the digits before the
\* point as a number, the digits after it, and the unit.
format_size(size_bytes) ==
  IF size_bytes.mantissa = 0
    THEN [whole |-> 0, decimals |-> <<>>, unit |-> "B"]
    ELSE LET scaled == Scale(size_bytes.mantissa, size_bytes.exponent, 0)
             unit == units[scaled.unit_index + 1]
         IN IF scaled.unit_index = 0
              THEN [whole |-> scaled.mantissa * Pow(Base, scaled.exponent),
                    decimals |-> <<>>, unit |-> unit]
              ELSE LET t == Tenths(scaled.mantissa, scaled.exponent) IN
                   [whole |-> t.whole, decimals |-> <<t.tenth>>, unit |-> unit]

\* An analyzer, and the byte count format_size is about to be called on.
InitFormat ==
  /\ Constructed
  /\ call \in {[NoCall EXCEPT !.size_bytes = b] : b \in ByteCounts}

FormatSize ==
  /\ call.op = "none"
  /\ call' = [call EXCEPT !.op = "format_size",
                          !.result = format_size(call.size_bytes)]
  /\ UNCHANGED scanning

NextFormat == FormatSize

SpecFormat == InitFormat /\ [][NextFormat]_vars

\* The number of base-1024 digits of a byte count > 0.
Digits(b) ==
  b.exponent + (IF b.mantissa >= Base THEN 2 ELSE 1)

\* C20: format_size agrees with the reference: "0 B" for 0; the byte count
\* itself, without decimals, in B below 1024; else the count divided by 1024
\* k times, rounded to the nearest tenth and shown with one decimal in the
\* k-th unit of KB..PB, k being the least number of divisions that brings
\* the value below 1024, at most 5 (PB).  512 gives "512 B", 1024 "1.0 KB",
\* 1024^2 "1.0 MB" and 1024^3 "1.0 GB".
C20_FormatSizeAgrees ==
  call.op = "format_size" =>
    LET b == call.size_bytes
        m == b.mantissa
        e == b.exponent
        out == call.result
        k == IF Digits(b) - 1 < 5 THEN Digits(b) - 1 ELSE 5
    IN
    /\ m = 0 => out = [whole |-> 0, decimals |-> <<>>, unit |-> "B"]
    /\ (m > 0 /\ Digits(b) = 1) =>
         out = [whole |-> m, decimals |-> <<>>, unit |-> "B"]
    /\ (m > 0 /\ Digits(b) > 1) =>
         /\ out.unit = <<"KB", "MB", "GB", "TB", "PB">>[k]
         /\ Len(out.decimals) = 1
         /\ out.decimals[1] \in 0..9
         /\ out.whole >= 0
         /\ IF e >= k
              THEN out.whole = m * Pow(1024, e - k) /\ out.decimals[1] = 0
              ELSE LET d == Pow(1024, k - e)
                       shown == 10 * out.whole + out.decimals[1]
                   IN /\ 2 * (d * shown - 10 * m) <= d
                      /\ 2 * (10 * m - d * shown) <= d
    /\ b = [mantissa |-> 512, exponent |-> 0] =>
         out = [whole |-> 512, decimals |-> <<>>, unit |-> "B"]
    /\ (b = [mantissa |-> 1024, exponent |-> 0] \/ b = [mantissa |-> 1, exponent |-> 1]) =>
         out = [whole |-> 1, decimals |-> <<0>>, unit |-> "KB"]
    /\ (b = [mantissa |-> 1024, exponent |-> 1] \/ b = [mantissa |-> 1, exponent |-> 2]) =>
         out = [whole |-> 1, decimals |-> <<0>>, unit |-> "MB"]
    /\ (b = [mantissa |-> 1024, exponent |-> 2] \/ b = [mantissa |-> 1, exponent |-> 3]) =>
         out = [whole |-> 1, decimals |-> <<0>>, unit |-> "GB"]

\* C20 witness: 1024^6 + 1024^5 / 4 bytes, beyond the last unit, was
\* formatted in PB, with one decimal.
C20_Witness ==
  /\ call.op = "format_size"
  /\ call.size_bytes = [mantissa |-> 1280, exponent |-> 5]
  /\ call.result.unit = "PB"
  /\ call.result.whole = 1280
  /\ call.result.decimals = <<0>>

\* ---------------------------------------------------------------- exporter
\* ReportExporter (exporter.py).  A text is given by what it spells: the
\* text of a path by the path, the text of a size by the parts format_size
\* returns, the ISO text of an instant by the instant.  A written file is
\* given by its document (JSON) or by its rows (CSV); `raised` tells that
\* open() failed with an OSError, in which case nothing was written.

\* The wide directory holds WideDirs directories of WideEntries files each:
\* with the root, more nodes than the 50 items of the JSON report.
WideDirs == 7
WideEntries == 7

\* Line 48: the number of largest items a JSON report holds.
LargestInReport == 50

\* The instants datetime.now() of line 34 returns.
Instants == {1700000100, 1700000200}

\* A size in bytes as format_size takes it (sizes here are below 2^20).
Bytes(n) == [mantissa |-> n, exponent |-> 0]

\* Lines 29 and 69: datetime.fromtimestamp(t).isoformat() if t > 0 else "".
\* The empty text is <<>>, the ISO text of the instant t is <<t>>.
IsoFormat(t) == IF t > 0 THEN <<t>> ELSE <<>>

\* The wide directory, its files of the three kinds in turn.
WideTree ==
  LET kinds == << [is_directory |-> FALSE, extension |-> ".txt", size |-> 1024],
                  [is_directory |-> FALSE, extension |-> ".py",  size |-> 1024],
                  [is_directory |-> FALSE, extension |-> "",     size |-> 2048] >>
      Wide(d) ==
        Directory(100 * d,
                  [i \in 1..WideEntries |-> Entry(kinds[((d + i) % 3) + 1], 100 * d + i)])
  IN Directory(1, [d \in 1..WideDirs |-> Wide(d)])

\* A tree built by hand, as the tests build theirs: the size of the root is
\* not the sum of its children (here 0 for a file of 1024 bytes).
HandMadeTree ==
  [Directory(100, <<Entry([is_directory |-> FALSE, extension |-> ".txt",
                            size |-> 1024], 110)>>) EXCEPT !.size = 0]

\* The trees handed to the exporter: those of the aggregator, the wide
\* directory, the hand-made tree and what a scan of a missing root returns.
ExportTrees == Trees \cup {WideTree, HandMadeTree, FullScan(8)}

\* file_info_to_dict without its line 30: the children are left out.
file_info_to_dict_flat(info) ==
  [path |-> info.path, name |-> info.name, size |-> info.size,
   size_formatted |-> format_size(Bytes(info.size)),
   is_directory |-> info.is_directory, extension |-> info.extension,
   modified_time |-> info.modified_time,
   modified_time_formatted |-> IsoFormat(info.modified_time),
   children |-> <<>>]

RECURSIVE file_info_to_dict(_)
\* Lines 20-31.
file_info_to_dict(info) ==
  [path |-> info.path, name |-> info.name, size |-> info.size,
   size_formatted |-> format_size(Bytes(info.size)),
   is_directory |-> info.is_directory, extension |-> info.extension,
   modified_time |-> info.modified_time,
   modified_time_formatted |-> IsoFormat(info.modified_time),
   children |-> [i \in DOMAIN info.children |-> file_info_to_dict(info.children[i])]]

\* Lines 41-47: one entry of "largest_items".
item_to_dict(item) ==
  [path |-> item.path, name |-> item.name, size |-> item.size,
   size_formatted |-> format_size(Bytes(item.size)),
   is_directory |-> item.is_directory]

\* Lines 33-50.  file_type_stats is the dict get_file_type_stats returns:
\* its keys in order, each with its count and size.
report_data(root, now) ==
  LET largest == get_largest_items(root, LargestInReport) IN
  [scan_timestamp |-> <<now>>,
   root_path |-> root.path,
   total_size |-> root.size,
   total_size_formatted |-> format_size(Bytes(root.size)),
   file_tree |-> file_info_to_dict(root),
   file_type_stats |-> get_file_type_stats(root),
   largest_items |-> [i \in DOMAIN largest |-> item_to_dict(largest[i])]]

\* Line 53, json.dump: a dict is written as an object, its members in the
\* order of its keys, each a key and a value; a list as an array; numbers,
\* texts and booleans as themselves.
json_dump(data) ==
  [data EXCEPT !.file_type_stats =
     [i \in DOMAIN @ |->
        [key |-> @[i].ext, value |-> [count |-> @[i].count, size |-> @[i].size]]]]

RECURSIVE Members(_, _)
\* dict(pairs), as json.load builds the dict of an object: a key met again
\* keeps its place and takes the later value.
Members(dict, pairs) ==
  IF pairs = <<>>
    THEN dict
    ELSE LET m == Head(pairs)
             entry == [ext |-> m.key, count |-> m.value.count, size |-> m.value.size]
         IN Members(IF \E i \in DOMAIN dict : dict[i].ext = m.key
                      THEN [i \in DOMAIN dict |->
                              IF dict[i].ext = m.key THEN entry ELSE dict[i]]
                      ELSE Append(dict, entry),
                    Tail(pairs))

\* json.load of a written report.
json_load(document) ==
  [document EXCEPT !.file_type_stats = Members(<<>>, @)]

\* Lines 17-53.  The report is built (lines 33-50) before the file is
\* opened (line 52); nothing in these lines assigns to the tree.
export_to_json(now, writable) ==
  /\ call.op = "none"
  /\ call' = [call EXCEPT
                !.op = "export_to_json",
                !.root_info = TreeLeft(@),
                !.raised = ~writable,
                !.result = IF writable
                             THEN json_dump(report_data(call.root_info, now))
                             ELSE <<>>]
  /\ UNCHANGED scanning

RECURSIVE LeafCount(_), LeafCounts(_)
\* The number of nodes without children of a tree (a FileInfo or the dict
\* written for it).
LeafCount(node) ==
  IF node.children = <<>> THEN 1 ELSE LeafCounts(node.children)

LeafCounts(nodes) ==
  IF nodes = <<>> THEN 0 ELSE LeafCount(Head(nodes)) + LeafCounts(Tail(nodes))

\* Lines 61-70: the row of a node.  csv writes each value as its text.
csv_row(info, depth) ==
  [path |-> info.path, name |-> info.name, size |-> info.size,
   size_formatted |-> format_size(Bytes(info.size)),
   is_directory |-> IF info.is_directory THEN "Yes" ELSE "No",
   extension |-> info.extension, depth |-> depth,
   modified_time |-> IsoFormat(info.modified_time)]

\* csv_child_depth with the depth of the parent handed down as it is.
csv_child_depth_same(depth) == depth

\* Line 73: the depth a child is collected with.
csv_child_depth(depth) == depth + 1

RECURSIVE csv_collect_items(_, _), csv_collect_children(_, _)
\* Lines 60-73, collect_items of export_to_csv: all_items takes the row of
\* the node, then the rows of each child in turn.
csv_collect_items(info, depth) ==
  <<csv_row(info, depth)>> \o csv_collect_children(info.children, csv_child_depth(depth))

\* Lines 72-73.
csv_collect_children(children, depth) ==
  IF children = <<>>
    THEN <<>>
    ELSE csv_collect_items(Head(children), depth)
           \o csv_collect_children(Tail(children), depth)

\* Line 79: the field names are the keys of the first row, in the order of
\* lines 62-69.
fieldnames ==
  <<"path", "name", "size", "size_formatted", "is_directory", "extension",
    "depth", "modified_time">>

\* DictWriter.writerow: the values of a row in the order of the field names.
Values(row) ==
  <<row.path, row.name, row.size, row.size_formatted, row.is_directory,
    row.extension, row.depth, row.modified_time>>

\* Lines 78-81: the header and the rows, when there is a row at all.
csv_lines(all_items) ==
  IF all_items # <<>>
    THEN <<fieldnames>> \o [i \in DOMAIN all_items |-> Values(all_items[i])]
    ELSE <<>>

\* Lines 56-81.  The rows are collected (line 75) before the file is opened
\* (line 77).
export_to_csv(writable) ==
  /\ call.op = "none"
  /\ call' = [call EXCEPT
                !.op = "export_to_csv",
                !.root_info = TreeLeft(@),
                !.raised = ~writable,
                !.result = IF writable
                             THEN csv_lines(csv_collect_items(call.root_info, 0))
                             ELSE <<>>]
  /\ UNCHANGED scanning

\* PercentageAsFraction: Percentage without the * 100 of line 94.
PercentageAsFraction(size, total_size) ==
  IF total_size > 0
    THEN LET q == (100 * size) \div total_size
             r == (100 * size) % total_size
         IN IF 2 * r > total_size \/ (2 * r = total_size /\ q % 2 = 1) THEN q + 1 ELSE q
    ELSE 0

\* Lines 94 and 100: f"{percentage:.2f}%" for percentage = size / total_size
\* * 100 when total_size > 0, else 0.  The text is given by the number of
\* hundredths of a percent it shows: the nearest to the exact value, the
\* even one of two equally near.
Percentage(size, total_size) ==
  IF total_size > 0
    THEN LET q == (10000 * size) \div total_size
             r == (10000 * size) % total_size
         IN IF 2 * r > total_size \/ (2 * r = total_size /\ q % 2 = 1) THEN q + 1 ELSE q
    ELSE 0

\* Lines 90-91.
file_types_header ==
  <<"File Extension", "File Count", "Total Size (Bytes)",
    "Total Size (Formatted)", "Percentage of Total">>

\* Lines 93-101: one row for each key of stats, in the order of the dict.
file_types_rows(stats, total_size) ==
  [i \in DOMAIN stats |->
     <<stats[i].ext, stats[i].count, stats[i].size,
       format_size(Bytes(stats[i].size)),
       Percentage(stats[i].size, total_size)>>]

\* Lines 84-101.
export_file_types_csv(writable) ==
  /\ call.op = "none"
  /\ call' = [call EXCEPT
                !.op = "export_file_types_csv",
                !.root_info = TreeLeft(@),
                !.raised = ~writable,
                !.result =
                  IF writable
                    THEN <<file_types_header>>
                           \o file_types_rows(get_file_type_stats(call.root_info),
                                              call.root_info.size)
                    ELSE <<>>]
  /\ UNCHANGED scanning

\* Line 104: the default of count.
DefaultCount == 100

\* Line 110.
largest_items_header ==
  <<"Rank", "Path", "Name", "Size (Bytes)", "Size (Formatted)", "Type">>

\* Lines 112-120: enumerate(largest_items, 1).
largest_items_rows(largest_items) ==
  [i \in DOMAIN largest_items |->
     <<i, largest_items[i].path, largest_items[i].name, largest_items[i].size,
       format_size(Bytes(largest_items[i].size)),
       IF largest_items[i].is_directory THEN "Directory" ELSE "File">>]

\* Lines 104-120.
export_largest_items_csv(count, writable) ==
  /\ call.op = "none"
  /\ call' = [call EXCEPT
                !.op = "export_largest_items_csv",
                !.root_info = TreeLeft(@),
                !.count = count,
                !.raised = ~writable,
                !.result =
                  IF writable
                    THEN <<largest_items_header>>
                           \o largest_items_rows(get_largest_items(call.root_info, count))
                    ELSE <<>>]
  /\ UNCHANGED scanning

\* The caller drops what a call returned and keeps the tree for a next call.
Discard ==
  /\ call.op # "none"
  /\ call' = [NoCall EXCEPT !.root_info = call.root_info]
  /\ UNCHANGED scanning

\* An analyzer, and the tree the exporter is about to be called on.
InitExporter ==
  /\ Constructed
  /\ call \in {[NoCall EXCEPT !.root_info = t] : t \in ExportTrees}

NextExporter ==
  \/ GetFileTypeStats
  \/ \E count \in Counts : GetLargestItems(count)
  \/ \E now \in Instants, writable \in BOOLEAN : export_to_json(now, writable)
  \/ \E writable \in BOOLEAN : export_to_csv(writable)
  \/ \E writable \in BOOLEAN : export_file_types_csv(writable)
  \/ \E count \in Counts \cup {DefaultCount}, writable \in BOOLEAN :
        export_largest_items_csv(count, writable)
  \/ Discard

SpecExporter == InitExporter /\ [][NextExporter]_vars

\* C21: the JSON report of a tree, read back, has the size of the root as
\* total_size, a file_tree with as many leaves as the tree, file_type_stats
\* equal to get_file_type_stats(root) (keys, counts, sizes and order) and as
\* largest_items the at most 50 nodes of get_largest_items(root, 50), in
\* their order.
C21_JsonReportReadsBack ==
  (call.op = "export_to_json" /\ ~call.raised) =>
    LET report == json_load(call.result)
        t == call.root_info
        largest == get_largest_items(t, 50)
    IN
    /\ report.total_size = t.size
    /\ report.root_path = t.path
    /\ LeafCount(report.file_tree) = Cardinality({n \in NodesOf(t) : n.children = <<>>})
    /\ report.file_type_stats = get_file_type_stats(t)
    /\ Len(report.largest_items) <= 50
    /\ Len(report.largest_items) = Len(largest)
    /\ \A i \in DOMAIN largest :
         /\ report.largest_items[i].path = largest[i].path
         /\ report.largest_items[i].name = largest[i].name
         /\ report.largest_items[i].size = largest[i].size
         /\ report.largest_items[i].is_directory = largest[i].is_directory

\* C21 witness: the report of the wide directory was written: 50 largest
\* items out of 57 nodes, three buckets and 49 leaves.
C21_Witness ==
  /\ call.op = "export_to_json"
  /\ ~call.raised
  /\ Cardinality(NodesOf(call.root_info)) > 50
  /\ Len(call.result.largest_items) = 50
  /\ Len(call.result.file_type_stats) = 3
  /\ LeafCount(call.result.file_tree) = 49

\* C22: export_to_csv writes a header row, then exactly one row for each node
\* of the tree, the root included, in pre-order; the depth of the root's
\* row is 0 and the depth of any other node's row is its parent's plus 1.
C22_CsvRowPerNodeInPreOrder ==
  (call.op = "export_to_csv" /\ ~call.raised) =>
    LET lines == call.result
        t == call.root_info
        items == collect_items(t)
    IN
    /\ Len(lines) = 1 + Cardinality(NodesOf(t))
    /\ lines[1] = <<"path", "name", "size", "size_formatted", "is_directory",
                    "extension", "depth", "modified_time">>
    /\ \A i \in DOMAIN items :
         /\ lines[i + 1][1] = items[i].path
         /\ lines[i + 1][3] = items[i].size
         /\ lines[i + 1][5] = (IF items[i].is_directory THEN "Yes" ELSE "No")
    /\ lines[2][1] = t.path
    /\ lines[2][7] = 0
    /\ \A i, j \in DOMAIN items :
         (\E k \in DOMAIN items[i].children : items[i].children[k].path = items[j].path)
           => lines[j + 1][7] = lines[i + 1][7] + 1

\* C22 witness: a file written for a tree with a file two levels below the
\* root, after a file of the root and before another one.
C22_Witness ==
  /\ call.op = "export_to_csv"
  /\ ~call.raised
  /\ Len(call.result) = 6
  /\ call.result[2][7] = 0
  /\ call.result[3][7] = 1 /\ call.result[3][5] = "No"
  /\ call.result[4][7] = 1 /\ call.result[4][5] = "Yes"
  /\ call.result[5][7] = 2
  /\ call.result[6][7] = 1

\* C23: export_file_types_csv writes, after the header, one row for each
\* bucket of get_file_type_stats(root), in the same order; the percentage of
\* a row is 0 when root.size is 0, and otherwise the size of the bucket
\* divided by root.size, times 100 (shown to the nearest hundredth).
C23_FileTypesCsvPercentage ==
  (call.op = "export_file_types_csv" /\ ~call.raised) =>
    LET lines == call.result
        t == call.root_info
        stats == get_file_type_stats(t)
    IN
    /\ Len(lines) = 1 + Len(stats)
    /\ lines[1] = <<"File Extension", "File Count", "Total Size (Bytes)",
                    "Total Size (Formatted)", "Percentage of Total">>
    /\ \A i \in DOMAIN stats :
         LET row == lines[i + 1] IN
         /\ row[1] = stats[i].ext
         /\ row[2] = stats[i].count
         /\ row[3] = stats[i].size
         /\ t.size = 0 => row[5] = 0
         /\ t.size > 0 =>
              /\ 2 * (row[5] * t.size - 10000 * stats[i].size) <= t.size
              /\ 2 * (10000 * stats[i].size - row[5] * t.size) <= t.size

\* C23 witness: the file written for a tree whose root has size 0 and holds
\* a file of 1024 bytes: one row, of percentage 0.
C23_Witness ==
  /\ call.op = "export_file_types_csv"
  /\ ~call.raised
  /\ call.root_info.size = 0
  /\ Len(call.result) = 2
  /\ call.result[2][3] = 1024
  /\ call.result[2][5] = 0

\* The file written for a tree whose root has a size above 0, with a bucket
\* that is a third of it: 33.33%.
C23_ThirdOfTotal ==
  /\ call.op = "export_file_types_csv"
  /\ ~call.raised
  /\ call.root_info.size = 3072
  /\ \E i \in 2..Len(call.result) : call.result[i][3] = 1024 /\ call.result[i][5] = 3333

\* C24: no call of get_file_type_stats, get_largest_items, export_to_json,
\* export_to_csv, export_file_types_csv or export_largest_items_csv changes
\* the tree it is given: through any sequence of such calls, whether they
\* return or fail on open(), the tree (every node's path, name, size,
\* is_directory, extension, modified_time and children) stays the same.
C24_TreeUnchanged ==
  [][call'.root_info = call.root_info]_vars

\* C24 witness: export_largest_items_csv has failed on open() for a tree
\* whose children are not in the order of their sizes.
C24_Witness ==
  /\ call.op = "export_largest_items_csv"
  /\ call.raised
  /\ call.result = <<>>
  /\ Len(call.root_info.children) = 3
  /\ call.root_info.children[1].size < call.root_info.children[3].size

\* ------------------------------------------------- a scan that is stopped

\* One step of a scan thread.
Worker(w) ==
  \/ Enter(w) \/ Visit(w) \/ Loop(w) \/ AfterWalk(w)
  \/ Complete(w) \/ Except(w) \/ Finally(w)

\* The analyzer with a caller that calls start_scan no more once it has
\* called stop_scan.
NextStopped ==
  \/ \E r \in Roots, behaviour \in Behaviours :
        ~stop_called /\ start_scan(r, behaviour)
  \/ stop_scan
  \/ join_exited
  \/ join_timeout
  \/ \E w \in Threads : Worker(w)

\* A started thread (line 61) is scheduled again and again until it ends,
\* and stat() and the listing of a directory return: a thread that can take
\* a step takes it.
SpecStopped ==
  Init /\ [][NextStopped]_vars /\ \A w \in Threads : WF_vars(Worker(w))

\* The calls of the progress callback in a log.
ProgressCalls(l) == Len(SelectSeq(l, IsProgress))

\* The entry a thread has passed the check of line 83 for and has not yet
\* reported (line 91): 1 when there is one.
InFlight(w) == IF pc[w] = "visit" THEN 1 ELSE 0

\* C25, steps: while is_scanning stays cleared, a thread moves on to no
\* other entry, calls the progress callback at most for the entry in flight,
\* and a directory being enumerated returns at its next turn of the loop
\* with the children it has, its size their sum; the thread that ends
\* leaves is_scanning cleared.
C25_NoNewEntries ==
  \A w \in Threads :
    /\ (~is_scanning /\ ~is_scanning') =>
         /\ cur'[w] = cur[w]
         /\ InFlight(w)' + (ProgressCalls(log'[w]) - ProgressCalls(log[w])) <= InFlight(w)
         /\ (pc[w] = "loop" /\ <<pc[w], stack[w]>>' # <<pc[w], stack[w]>>) =>
              LET n == Len(stack[w])
                  frame == stack[w][n]
                  out == IF n = 1
                           THEN root_info'[w]
                           ELSE LET into == stack'[w][n - 1].info.children
                                IN into[Len(into)]
              IN /\ Len(stack'[w]) = n - 1
                 /\ out.path = frame.info.path
                 /\ out.children = frame.info.children
                 /\ out.size = SumSizes(frame.info.children)
    /\ (pc[w] # "done" /\ pc'[w] = "done") => ~is_scanning'

\* C25: once stop_scan has cleared is_scanning and no start_scan follows,
\* the walk visits no entry beyond the one in flight (C25_NoNewEntries) and
\* every thread still running comes to its end, with is_scanning cleared.
C25_StoppedScanWindsDown ==
  /\ [][C25_NoNewEntries]_vars
  /\ \A w \in Threads :
       (stop_called /\ ~is_scanning /\ pc[w] \notin {"unborn", "done"})
         ~> (pc[w] = "done" /\ ~is_scanning)

\* C25 witness: a thread stopped inside /r/sub has ended: sub and /r both
\* broke off with the children they had, /r/locked was never reached, and
\* is_scanning is cleared.
C25_Witness ==
  \E w \in Threads :
    /\ stop_called
    /\ pc[w] = "done"
    /\ ~is_scanning
    /\ stopped_at[w] = {"in_walk"}
    /\ LogPaths(w, "break") = {1, 3}
    /\ 4 \notin LogPaths(w, "progress")
    /\ Len(root_info[w].children) = 2
    /\ Len(root_info[w].children[2].children) = 1

\* ------------------------------------------ overlapping scans, callbacks

\* The children of a directory whose listing succeeded are all the entries
\* of the listing, in its order, in every directory of the tree.
Untruncated(tree) ==
  \A n \in NodesOf(tree) :
     (n.is_directory /\ ListFail[n.path] = "none")
       => [i \in DOMAIN n.children |-> n.children[i].path] = Listing[n.path]

\* C26: every tree handed to a completion callback is untruncated: no
\* directory of it was cut short and no child was dropped because of a
\* cancellation, whatever the interleaving of start_scan, stop_scan and the
\* threads.
C26_DeliveredTreesUntruncated ==
  \A w \in Threads :
    \A i \in DOMAIN delivered[w] :
       /\ Untruncated(delivered[w][i].tree)
       /\ ~LogHas(w, "break")
       /\ LogPaths(w, "interrupted") = {}

\* C27: the end of a thread clears is_scanning only for its own scan (never
\* while a later start_scan's thread is the one is_scanning stands for),
\* and the callbacks a thread calls are the ones handed to the start_scan
\* call that created it.
C27_WorkerExitIsItsOwn ==
  [][\A w \in Threads :
       /\ (pc[w] = "finally" /\ pc'[w] = "done" /\ is_scanning /\ scan_thread # w)
            => is_scanning'
       /\ \A i \in DOMAIN log'[w] : log'[w][i].cb \in {None, w}]_vars

\* C28: is_scanning is true from the accepted start_scan until the terminal
\* callback of its thread has returned, so that a start_scan made from
\* inside that callback is refused (line 48), and one made once every
\* thread has ended is accepted.
C28_BusyUntilTerminalCallbackReturns ==
  /\ \A w \in Threads :
       pc[w] \in {"enter", "visit", "loop", "return", "complete", "except"}
         => StartRefused(is_scanning)
  /\ (\A w \in Threads : pc[w] \in {"unborn", "done"}) => ~StartRefused(is_scanning)

\* The directories of a tree that were given their raw stat size (line 121).
FellBack(tree) ==
  {n \in NodesOf(tree) : n.is_directory /\ ListFail[n.path] # "none"}

\* C29: for every tree handed to a completion callback, the sizes of the
\* buckets of get_file_type_stats add up to at most the size of the root, so
\* that no row of the file-type CSV shows more than 100%; they add up to
\* the size of the root when no directory of the tree fell back to its raw
\* stat size.
C29_BucketsWithinRootSize ==
  \A w \in Threads :
    \A i \in DOMAIN delivered[w] :
       LET t == delivered[w][i].tree
           stats == get_file_type_stats(t)
           rows == file_types_rows(stats, t.size)
       IN /\ SumSizes(stats) <= t.size
          /\ \A k \in DOMAIN rows : rows[k][5] <= 10000
          /\ FellBack(t) = {} => SumSizes(stats) = t.size

\* C29 witness: the tree of a whole scan of /r was handed over: /r/locked
\* and /r/sub/flaky fell back to their stat size, and the buckets add up to
\* less than the size of the root.
C29_Witness ==
  \E w \in Threads :
    /\ Len(delivered[w]) = 1
    /\ LET t == delivered[w][1].tree IN
       /\ t = FullScan(1)
       /\ Cardinality(FellBack(t)) = 2
       /\ 0 < SumSizes(get_file_type_stats(t))
       /\ SumSizes(get_file_type_stats(t)) < t.size

\* A tree with directories and files but without a directory that fell back
\* was handed over, its buckets adding up to the size of the root.
C29_EqualWithoutFallback ==
  \E w \in Threads :
    /\ Len(delivered[w]) = 1
    /\ LET t == delivered[w][1].tree IN
       /\ t.is_directory
       /\ FellBack(t) = {}
       /\ t.size > 0
       /\ SumSizes(get_file_type_stats(t)) = t.size

\* C30: when the progress callback raises for an entry, the entry is
\* returned as the minimal leaf (size 0, not a directory, no children) and
\* nothing below it is scanned; the error callback is not called for it;
\* the walk goes on with the next entry of the parent, and a scan that was
\* not cancelled still calls the completion callback, with that tree.
C30_ProgressExceptionAbsorbed ==
  \A w \in Threads :
    /\ \A i \in DOMAIN log[w] :
         (log[w][i].ev = "progress"
            /\ cb_kind[log[w][i].cb].progress_raises_at = log[w][i].path) =>
           LET p == log[w][i].path IN
           /\ \A n \in BuiltNodes(w) :
                n.path = p => /\ n.size = 0
                              /\ ~n.is_directory
                              /\ n.children = <<>>
           /\ \A c \in {Listing[p][j] : j \in DOMAIN Listing[p]} :
                /\ c \notin Visited(w)
                /\ c \notin LogPaths(w, "progress")
                /\ c \notin LogPaths(w, "stat_failed")
           /\ i < Len(log[w]) => log[w][i + 1].ev # "onError"
    /\ (ProgressRaised(w) /\ pc[w] = "done" /\ ~SawStop(w)) =>
         /\ Len(delivered[w]) = 1
         /\ delivered[w][1].tree = root_info[w]
         /\ [j \in DOMAIN root_info[w].children |-> root_info[w].children[j].path]
              = Listing[root_path[w]]
         /\ errors[w] # <<>> => cb_kind[delivered[w][1].cb].complete_raises

\* C30 witness: a scan of /r whose progress callback raised for /r/sub has
\* ended without being cancelled: sub is a leaf of size 0, /r/locked was
\* visited after it, the tree was handed over and no error was reported.
C30_Witness ==
  \E w \in Threads :
    /\ pc[w] = "done"
    /\ ~SawStop(w)
    /\ ProgressRaised(w)
    /\ 4 \in LogPaths(w, "progress")
    /\ Len(delivered[w]) = 1
    /\ errors[w] = <<>>
    /\ delivered[w][1].tree.children[2].path = 3
    /\ delivered[w][1].tree.children[2].children = <<>>
    /\ delivered[w][1].tree.children[2].size = 0

====
